---------------------------- MODULE Spec2Model ----------------------------
(***************************************************************************)
(* NSCP 2015 beam calculator (backend/apps/beams/engine.py): automatic     *)
(* rebar placement (place_bars), the flexural equilibrium solver           *)
(* (calc_flexure) and the shear design arithmetic (calc_shear).            *)
(*                                                                         *)
(* Numbers.  The engine computes in IEEE doubles.  The model computes in   *)
(* signed decimal fixed point with 12 fractional digits: a number is a     *)
(* record [s, m], s its sign (-1, 0, 1) and m its magnitude in units of    *)
(* 1e-12 as a little-endian sequence of base-10000 limbs without leading   *)
(* zero limbs (TLC's integers are 32 bits wide, the limbs keep every       *)
(* intermediate product below 2^31).  82.5 is [s |-> 1, m |-> <<0, 0,      *)
(* 5000, 82>>].  Sums, differences and comparisons are exact; products and *)
(* quotients are truncated to the grid, where a double rounds to 53 bits.  *)
(* Every tolerance of the source (1e-9, 1e-6, 1e-3) is a grid value.       *)
(***************************************************************************)
EXTENDS Integers, Sequences, FiniteSets, TLC

----------------------------------------------------------------------------
(* Magnitudes: little-endian base-10000 limb sequences. *)

Base == 10000
FracLimbs == 3

\* Python's None where a float is optional, and the absence of an exception.
None == [none |-> TRUE]
NoError == "no error"

RECURSIVE MNorm(_)
MNorm(a) == IF a = <<>> THEN <<>>
            ELSE IF a[Len(a)] = 0 THEN MNorm(SubSeq(a, 1, Len(a) - 1))
            ELSE a

MLimb(a, i) == IF i >= 1 /\ i <= Len(a) THEN a[i] ELSE 0

MaxI(x, y) == IF x >= y THEN x ELSE y
MinI(x, y) == IF x <= y THEN x ELSE y

\* Carry propagation over a sequence of non-negative limb sums.
RECURSIVE MCarry(_, _, _, _)
MCarry(a, i, carry, acc) ==
    IF i > Len(a)
    THEN IF carry = 0 THEN acc ELSE MCarry(a, i, carry \div Base, Append(acc, carry % Base))
    ELSE LET t == a[i] + carry
         IN MCarry(a, i + 1, t \div Base, Append(acc, t % Base))

MAdd(a, b) ==
    MCarry([i \in 1..MaxI(Len(a), Len(b)) |-> MLimb(a, i) + MLimb(b, i)], 1, 0, <<>>)

\* a - b for a >= b.
RECURSIVE MBorrow(_, _, _, _, _)
MBorrow(a, b, i, borrow, acc) ==
    IF i > Len(a) THEN MNorm(acc)
    ELSE LET t == a[i] - MLimb(b, i) - borrow
         IN IF t < 0 THEN MBorrow(a, b, i + 1, 1, Append(acc, t + Base))
            ELSE MBorrow(a, b, i + 1, 0, Append(acc, t))

MSub(a, b) == MBorrow(a, b, 1, 0, <<>>)

\* -1, 0, 1 as a < b, a = b, a > b (both without leading zero limbs).
RECURSIVE MCmpAt(_, _, _)
MCmpAt(a, b, i) ==
    IF i = 0 THEN 0
    ELSE IF a[i] < b[i] THEN -1
    ELSE IF a[i] > b[i] THEN 1
    ELSE MCmpAt(a, b, i - 1)

MCmp(a, b) ==
    IF Len(a) < Len(b) THEN -1
    ELSE IF Len(a) > Len(b) THEN 1
    ELSE MCmpAt(a, b, Len(a))

RECURSIVE MConv(_, _, _, _)
MConv(a, b, k, i) ==
    \* sum of a[i] * b[k + 1 - i] over the i in range
    IF i > Len(a) \/ i > k THEN 0
    ELSE (IF k + 1 - i <= Len(b) THEN a[i] * b[k + 1 - i] ELSE 0) + MConv(a, b, k, i + 1)

\* Carry propagation where the limb sums may reach 2^31: split each first.
RECURSIVE MCarryWide(_, _, _, _)
MCarryWide(a, i, carry, acc) ==
    IF i > Len(a)
    THEN IF carry = 0 THEN MNorm(acc)
         ELSE MCarryWide(a, i, carry \div Base, Append(acc, carry % Base))
    ELSE LET t == (a[i] % Base) + (carry % Base)
             u == (a[i] \div Base) + (carry \div Base) + (t \div Base)
         IN MCarryWide(a, i + 1, u, Append(acc, t % Base))

MMul(a, b) ==
    IF a = <<>> \/ b = <<>> THEN <<>>
    ELSE MCarryWide([k \in 1..(Len(a) + Len(b) - 1) |-> MConv(a, b, k, MaxI(1, k + 1 - Len(b)))],
                    1, 0, <<>>)

\* a * 10000^n and a \div 10000^n.
MShl(a, n) == IF a = <<>> THEN <<>> ELSE [i \in 1..(Len(a) + n) |-> IF i <= n THEN 0 ELSE a[i - n]]
MShr(a, n) == IF Len(a) <= n THEN <<>> ELSE SubSeq(a, n + 1, Len(a))

\* a \div k for a small k (k * 10000 < 2^31).
RECURSIVE MDivSmallAt(_, _, _, _, _)
MDivSmallAt(a, k, i, rem, acc) ==
    IF i = 0 THEN MNorm(acc)
    ELSE LET t == rem * Base + a[i]
         IN MDivSmallAt(a, k, i - 1, t % k, <<t \div k>> \o acc)

MDivSmall(a, k) == MDivSmallAt(a, k, Len(a), 0, <<>>)

MMulSmall(a, k) == MMul(a, IF k = 0 THEN <<>> ELSE IF k < Base THEN <<k>> ELSE MNorm(<<k % Base, (k \div Base) % Base, k \div (Base * Base)>>))

\* Long division a \div b, b # 0 (Knuth's algorithm D): both scaled so that the
\* divisor's top limb is at least Base/2, then each quotient limb is estimated
\* from the two top limbs of the running remainder and corrected downwards.
RECURSIVE MQFix(_, _, _)
MQFix(r, b, q) ==
    \* the largest q' <= q with q' * b <= r
    IF MCmp(MMulSmall(b, q), r) <= 0 THEN q ELSE MQFix(r, b, q - 1)

MQDigit(r, b) ==
    IF MCmp(r, b) < 0 THEN 0
    ELSE MQFix(r, b, MinI((MLimb(r, Len(b) + 1) * Base + MLimb(r, Len(b))) \div b[Len(b)], Base - 1))

RECURSIVE MDivAt(_, _, _, _, _)
MDivTake(a, b, i, r, q, acc) ==
    MDivAt(a, b, i - 1, IF q = 0 THEN r ELSE MSub(r, MMulSmall(b, q)), <<q>> \o acc)

MDivLimb(a, b, i, r, acc) == MDivTake(a, b, i, r, MQDigit(r, b), acc)

\* The quotient limbs from a[i] down, rem the running remainder.
MDivAt(a, b, i, rem, acc) ==
    IF i = 0 THEN MNorm(acc)
    ELSE MDivLimb(a, b, i, MNorm(<<a[i]>> \o rem), acc)

MDivFrom(a, b) == MDivAt(a, b, Len(a), <<>>, <<>>)

MDiv(a, b) ==
    IF a = <<>> THEN <<>>
    ELSE MDivFrom(MMulSmall(a, Base \div (b[Len(b)] + 1)), MMulSmall(b, Base \div (b[Len(b)] + 1)))

----------------------------------------------------------------------------
(* Signed fixed-point numbers (the engine's floats). *)

Zero == [s |-> 0, m |-> <<>>]

Mk(sign, mag) == IF mag = <<>> THEN Zero ELSE [s |-> sign, m |-> mag]

\* The limbs of a natural number below 2^31.
IntLimbs(n) == MNorm(<<n % Base, (n \div Base) % Base, n \div (Base * Base)>>)

\* float(n) for an integer n.
FromInt(n) == IF n = 0 THEN Zero
              ELSE IF n > 0 THEN Mk(1, MShl(IntLimbs(n), FracLimbs))
              ELSE Mk(-1, MShl(IntLimbs(-n), FracLimbs))

\* The decimal literal n * 10^-k, 0 <= k <= 12 (0.85 is Dec(85, 2)).
Dec(n, k) ==
    Mk(1, MShl(MMulSmall(IntLimbs(n), 10 ^ ((4 * FracLimbs - k) % 4)), (4 * FracLimbs - k) \div 4))

FNeg(x) == [s |-> -x.s, m |-> x.m]
FAbs(x) == [s |-> IF x.s = 0 THEN 0 ELSE 1, m |-> x.m]

\* -1, 0, 1 as x < y, x = y, x > y.
FCmp(x, y) ==
    IF x.s # y.s THEN (IF x.s < y.s THEN -1 ELSE 1)
    ELSE IF x.s = 0 THEN 0
    ELSE x.s * MCmp(x.m, y.m)

FLt(x, y) == FCmp(x, y) < 0
FLe(x, y) == FCmp(x, y) <= 0
FGt(x, y) == FCmp(x, y) > 0
FGe(x, y) == FCmp(x, y) >= 0

FMax(x, y) == IF FGe(x, y) THEN x ELSE y
FMin(x, y) == IF FLe(x, y) THEN x ELSE y

FAddOpposite(x, y, c) ==
    IF c = 0 THEN Zero
    ELSE IF c > 0 THEN Mk(x.s, MSub(x.m, y.m))
    ELSE Mk(y.s, MSub(y.m, x.m))

FAdd(x, y) ==
    IF x.s = 0 THEN y
    ELSE IF y.s = 0 THEN x
    ELSE IF x.s = y.s THEN Mk(x.s, MAdd(x.m, y.m))
    ELSE FAddOpposite(x, y, MCmp(x.m, y.m))

FSub(x, y) == FAdd(x, FNeg(y))

FMul(x, y) == IF x.s = 0 \/ y.s = 0 THEN Zero
              ELSE Mk(x.s * y.s, MShr(MMul(x.m, y.m), FracLimbs))

\* x / y for y # 0.
FDiv(x, y) == IF x.s = 0 THEN Zero
              ELSE Mk(x.s * y.s, MDiv(MShl(x.m, FracLimbs), y.m))

\* int(math.floor(x)) for |x| < 2^31.
MToInt(a) == MLimb(a, 1) + Base * MLimb(a, 2) + Base * Base * MLimb(a, 3)
FFloor(x) ==
    IF x.s >= 0 THEN MToInt(MShr(x.m, FracLimbs))
    ELSE IF MShl(MShr(x.m, FracLimbs), FracLimbs) = x.m THEN -MToInt(MShr(x.m, FracLimbs))
    ELSE -MToInt(MShr(x.m, FracLimbs)) - 1

\* math.sqrt(x), x >= 0: Newton's iteration on the integer root of x * 10^12,
\* from an upper estimate made of the root of the top limbs.
RECURSIVE ISqrtIter(_, _)
ISqrtNext(n, g, h) == IF h >= g THEN g ELSE ISqrtIter(n, h)
ISqrtIter(n, g) == ISqrtNext(n, g, (g + n \div g) \div 2)
ISqrt(n) == IF n = 0 THEN 0 ELSE ISqrtIter(n, n)

MSqrtGuess(n) ==
    IF Len(n) % 2 = 1
    THEN MShl(IntLimbs(ISqrt(n[Len(n)]) + 1), (Len(n) - 1) \div 2)
    ELSE MShl(IntLimbs(ISqrt(n[Len(n)] * Base + n[Len(n) - 1]) + 1), (Len(n) - 2) \div 2)

RECURSIVE MSqrtIter(_, _)
MSqrtNext(n, g, h) == IF MCmp(h, g) >= 0 THEN g ELSE MSqrtIter(n, h)
MSqrtIter(n, g) == MSqrtNext(n, g, MDivSmall(MAdd(g, MDiv(n, g)), 2))

MSqrt(n) == MSqrtIter(n, MSqrtGuess(n))

FSqrt(x) == IF x.s = 0 THEN Zero ELSE Mk(1, MSqrt(MShl(x.m, FracLimbs)))

\* math.pi
Pi == [s |-> 1, m |-> <<3589, 9265, 1415, 3>>]

EPS == Dec(1, 9)

----------------------------------------------------------------------------
(* Utilities *)

Half(x) == FDiv(x, FromInt(2))

area_of_bar(d_mm) == FDiv(FMul(Pi, FMul(d_mm, d_mm)), FromInt(4))

min_clear_spacing(db, agg_size) ==
    IF agg_size # None /\ FGt(agg_size, Zero)
    THEN FMax(FMax(FromInt(25), db), FMul(Dec(133, 2), agg_size))
    ELSE FMax(FromInt(25), db)

----------------------------------------------------------------------------
(* Automatic rebar placement.  A call ends in one of three ways: it returns  *)
(* (status "ok"), it raises ValueError (status "ValueError" with the         *)
(* message), or it never leaves the padding loop of                          *)
(* pick_second_row_positions (status "loops").                               *)

Bar(x, y, dia, role, layer) ==
    [x_mm |-> x, y_mm |-> y, dia_mm |-> dia, role |-> role, layer |-> layer]

max_bars_one_row(b_inside, db, s_clear) ==
    IF FLe(b_inside, Zero) THEN 0
    ELSE MaxI(FFloor(FDiv(FAdd(b_inside, s_clear), FAdd(db, s_clear))), 0)

\* A row laid out from the left edge of the envelope, without the side margin.
RowFromLeftEdge(x, n, pitch) == [i \in 1..n |-> FMul(FromInt(i - 1), pitch)]

\* xs of the loop "for _ in range(n): xs.append(x); x += pitch" started at x.
RowFrom(x, n, pitch) == [i \in 1..n |-> FAdd(x, FMul(FromInt(i - 1), pitch))]

symmetric_row_from(bi, n, db, s_clear, req) ==
    IF FGt(FSub(req, bi), EPS)
    THEN [err |-> "Bars do not fit in one row across width with required clear spacing", xs |-> <<>>]
    ELSE [err |-> NoError,
          xs |-> RowFrom(FAdd(Half(FSub(bi, req)), Half(db)), MaxI(n, 0), FAdd(db, s_clear))]

symmetric_row_positions(bi, n, db, s_clear) ==
    symmetric_row_from(bi, n, db, s_clear,
                       FAdd(FMul(FromInt(n), db), FMul(FromInt(n - 1), s_clear)))

\* int(round(p / q)) for naturals p, q > 0: Python rounds halves to even.
RoundHalfEven(p, q) ==
    IF 2 * (p % q) < q THEN p \div q
    ELSE IF 2 * (p % q) > q THEN (p \div q) + 1
    ELSE IF (p \div q) % 2 = 0 THEN p \div q
    ELSE (p \div q) + 1

\* sorted(S) for a finite set of integers.
RECURSIVE SortedSeq(_)
SortedSeq(S) ==
    IF S = {} THEN <<>>
    ELSE <<CHOOSE x \in S : \A y \in S : x <= y>>
         \o SortedSeq(S \ {CHOOSE x \in S : \A y \in S : x <= y})

Elems(q) == {q[i] : i \in 1..Len(q)}

\* The while loop that pads idxs up to n2 entries: one pass of its for loop
\* appends the indices of 0..m-1 not yet in idxs, in order, until there are
\* n2; a pass that leaves fewer than n2 has appended every index, and every
\* later pass appends nothing: the loop does not end.
PadWhile(idxs, m, n2) ==
    IF Len(idxs) >= n2 THEN [loops |-> FALSE, idxs |-> idxs]
    ELSE IF Len(idxs) + Cardinality((0..(m - 1)) \ Elems(idxs)) < n2
    THEN [loops |-> TRUE, idxs |-> idxs \o SortedSeq((0..(m - 1)) \ Elems(idxs))]
    ELSE [loops |-> FALSE,
          idxs |-> idxs \o SubSeq(SortedSeq((0..(m - 1)) \ Elems(idxs)), 1, n2 - Len(idxs))]

FirstN(q, n) == SubSeq(q, 1, MinI(n, Len(q)))

\* A selection that fills the upper layer from the left, one bar above each
\* bottom bar in turn.
second_row_from_left(m, n2) == [loops |-> FALSE, idxs |-> [j \in 1..n2 |-> (j - 1) % m]]

\* The indices of the bottom row the upper layer stands above.
second_row_indices(m, n2) ==
    IF n2 = 1 THEN [loops |-> FALSE, idxs |-> <<0>>]
    ELSE IF n2 = 2 THEN [loops |-> FALSE, idxs |-> <<0, m - 1>>]
    ELSE IF n2 = 3 THEN [loops |-> FALSE, idxs |-> <<0, m \div 2, m - 1>>]
    ELSE PadWhile(FirstN(SortedSeq({0, m - 1}
                                   \cup {RoundHalfEven(k * (m - 1), n2 - 1) : k \in 1..(n2 - 2)}),
                         n2),
                  m, n2)

pick_from_indices(x_bot, sel) ==
    [loops |-> sel.loops,
     xs |-> IF sel.loops THEN <<>> ELSE [j \in 1..Len(sel.idxs) |-> x_bot[sel.idxs[j] + 1]]]

pick_second_row_positions(x_bot, n2) ==
    IF n2 <= 0 \/ Len(x_bot) = 0 THEN [loops |-> FALSE, xs |-> <<>>]
    ELSE pick_from_indices(x_bot, second_row_indices(Len(x_bot), n2))

BarsAt(xs, x_min, y, dia, role, layer) ==
    [i \in 1..Len(xs) |-> Bar(FAdd(x_min, xs[i]), y, dia, role, layer)]

Raised(msg) == [status |-> "ValueError", error |-> msg, bars |-> <<>>]
Placed(bars) == [status |-> "ok", error |-> NoError, bars |-> bars]
Looping == [status |-> "loops", error |-> NoError, bars |-> <<>>]

\* ---- tension bars (bottom)
tension_second_layer(x_min, y2, db, n2, layer1, x2_pick) ==
    IF x2_pick.loops THEN Looping
    ELSE IF Len(x2_pick.xs) # n2
    THEN Raised("Internal placement issue for second layer (selection mismatch)")
    ELSE Placed(layer1 \o BarsAt(x2_pick.xs, x_min, y2, db, "tension", 2))

tension_two_layers(x_min, y_max, y1, y2, db, n2, x_bot_rel) ==
    IF x_bot_rel.err # NoError THEN Raised(x_bot_rel.err)
    ELSE IF FGt(FAdd(y2, Half(db)), FAdd(y_max, EPS))
    THEN Raised("Tension bars need more vertical space (two layers don't fit)")
    ELSE tension_second_layer(x_min, y2, db, n2,
                              BarsAt(x_bot_rel.xs, x_min, y1, db, "tension", 1),
                              pick_second_row_positions(x_bot_rel.xs, n2))

tension_one_row(x_min, y1, db, x_bot) ==
    IF x_bot.err # NoError THEN Raised(x_bot.err)
    ELSE Placed(BarsAt(x_bot.xs, x_min, y1, db, "tension", 1))

tension_rows(b_inside, x_min, y_max, n_tension, db, smin_t, y1, cap1) ==
    IF n_tension <= cap1
    THEN tension_one_row(x_min, y1, db, symmetric_row_positions(b_inside, n_tension, db, smin_t))
    ELSE IF cap1 < 2
    THEN Raised("Bottom layer cannot host at least 2 bars with required clear spacing; increase width or reduce db/agg size.")
    ELSE tension_two_layers(x_min, y_max, y1, FAdd(FAdd(y1, db), FromInt(25)), db, n_tension - cap1,
                            symmetric_row_positions(b_inside, cap1, db, smin_t))

tension_spaced(b_inside, x_min, y_min, y_max, n_tension, db, smin_t) ==
    tension_rows(b_inside, x_min, y_max, n_tension, db, smin_t,
                 FAdd(y_min, Half(db)), max_bars_one_row(b_inside, db, smin_t))

tension_bars(b_inside, x_min, y_min, y_max, n_tension, db_tension, agg_size) ==
    tension_spaced(b_inside, x_min, y_min, y_max, n_tension, db_tension,
                   min_clear_spacing(db_tension, agg_size))

\* ---- compression bars (top, optional)
compression_second_layer(x_min, ytop2, db, layer1, x2c_pick) ==
    IF x2c_pick.loops THEN Looping
    ELSE Placed(layer1 \o BarsAt(x2c_pick.xs, x_min, ytop2, db, "compression", 2))

compression_two_layers(x_min, y_min, ytop1, ytop2, db, n2c, x_top_rel) ==
    IF x_top_rel.err # NoError THEN Raised(x_top_rel.err)
    ELSE IF FLt(FSub(ytop2, Half(db)), FSub(y_min, EPS))
    THEN Raised("Compression bars need more vertical space (two layers don't fit)")
    ELSE compression_second_layer(x_min, ytop2, db,
                                  BarsAt(x_top_rel.xs, x_min, ytop1, db, "compression", 1),
                                  pick_second_row_positions(x_top_rel.xs, n2c))

compression_one_row(x_min, ytop1, db, x_top) ==
    IF x_top.err # NoError THEN Raised(x_top.err)
    ELSE Placed(BarsAt(x_top.xs, x_min, ytop1, db, "compression", 1))

compression_rows(b_inside, x_min, y_min, n_compression, db, smin_c, ytop1, capc) ==
    IF n_compression <= capc
    THEN compression_one_row(x_min, ytop1, db,
                             symmetric_row_positions(b_inside, n_compression, db, smin_c))
    ELSE compression_two_layers(x_min, y_min, ytop1, FSub(ytop1, FAdd(db, FromInt(25))), db,
                                n_compression - capc,
                                symmetric_row_positions(b_inside, capc, db, smin_c))

compression_spaced(b_inside, x_min, y_min, y_max, n_compression, db, smin_c) ==
    compression_rows(b_inside, x_min, y_min, n_compression, db, smin_c,
                     FSub(y_max, Half(db)), max_bars_one_row(b_inside, db, smin_c))

compression_bars(b_inside, x_min, y_min, y_max, n_compression, db_compression, agg_size) ==
    IF n_compression > 0 /\ db_compression # None /\ FGt(db_compression, Zero)
    THEN compression_spaced(b_inside, x_min, y_min, y_max, n_compression, db_compression,
                            min_clear_spacing(db_compression, agg_size))
    ELSE Placed(<<>>)

place_roles(stirrup, ten, com) ==
    IF ten.status # "ok"
    THEN [status |-> ten.status, error |-> ten.error, bars |-> <<>>, stirrup_inside |-> stirrup]
    ELSE IF com.status # "ok"
    THEN [status |-> com.status, error |-> com.error, bars |-> <<>>, stirrup_inside |-> stirrup]
    ELSE [status |-> "ok", error |-> NoError, bars |-> ten.bars \o com.bars,
          stirrup_inside |-> stirrup]

place_inside(x_min, y_min, x_max, y_max, n_tension, db_tension, n_compression, db_compression, agg_size) ==
    place_roles([x_min |-> x_min, y_min |-> y_min, x_max |-> x_max, y_max |-> y_max],
                tension_bars(FSub(x_max, x_min), x_min, y_min, y_max, n_tension, db_tension, agg_size),
                compression_bars(FSub(x_max, x_min), x_min, y_min, y_max, n_compression,
                                 db_compression, agg_size))

place_bars(width, height, cover, stirrup_dia, n_tension, db_tension, n_compression, db_compression, agg_size) ==
    place_inside(FAdd(cover, stirrup_dia), FAdd(cover, stirrup_dia),
                 FSub(FSub(width, cover), stirrup_dia), FSub(FSub(height, cover), stirrup_dia),
                 n_tension, db_tension, n_compression, db_compression, agg_size)

----------------------------------------------------------------------------
(* Strength calculations *)

beta1_of_fc(fc) ==
    IF FLe(fc, FromInt(28)) THEN Dec(85, 2)
    ELSE FMax(FSub(Dec(85, 2), FMul(Dec(5, 2), FDiv(FSub(fc, FromInt(28)), FromInt(7)))),
              Dec(65, 2))

\* phi without the tension-controlled plateau.
phi_compression_controlled(eps_t) == Dec(65, 2)

phi_flexure_from_strain(eps_t) ==
    IF FLe(eps_t, Dec(2, 3)) THEN Dec(65, 2)
    ELSE IF FGe(eps_t, Dec(5, 3)) THEN Dec(90, 2)
    ELSE FAdd(Dec(65, 2),
              FDiv(FMul(FSub(eps_t, Dec(2, 3)), FSub(Dec(90, 2), Dec(65, 2))),
                   FSub(Dec(5, 3), Dec(2, 3))))

\* float("nan")
NaN == [nan |-> TRUE]

OfRole(bars, role) == SelectSeq(bars, LAMBDA bar : bar.role = role)

\* The sum of area_of_bar(b.dia_mm) [* b.y_mm] over bars[i..], added to acc.
RECURSIVE SumAreas(_, _, _)
SumAreas(bars, i, acc) ==
    IF i > Len(bars) THEN acc
    ELSE SumAreas(bars, i + 1, FAdd(acc, area_of_bar(bars[i].dia_mm)))

RECURSIVE SumAreaMoments(_, _, _)
SumAreaMoments(bars, i, acc) ==
    IF i > Len(bars) THEN acc
    ELSE SumAreaMoments(bars, i + 1, FAdd(acc, FMul(area_of_bar(bars[i].dia_mm), bars[i].y_mm)))

sum_area(bars, role) == SumAreas(OfRole(bars, role), 1, Zero)

centroid_from(as_total, y_as) == IF FLt(as_total, EPS) THEN NaN ELSE FDiv(y_as, as_total)

centroid_of_role(bars, role) ==
    centroid_from(SumAreas(OfRole(bars, role), 1, Zero), SumAreaMoments(OfRole(bars, role), 1, Zero))

\* max(min(v, fy), -fy)
Clamp(v, fy) == FMax(FMin(v, fy), FNeg(fy))

\* The steel stresses against c; f is calc_flexure's frame (fy, d, d_prime).
fs_of_c(f, c, assume_yield) ==
    IF assume_yield THEN f.fy
    ELSE Clamp(FDiv(FMul(FromInt(600), FSub(f.d, c)), FMax(c, EPS)), f.fy)

fsp_of_c(f, c, assume_yield) ==
    IF f.d_prime = None THEN Zero
    ELSE IF assume_yield THEN f.fy
    ELSE Clamp(FDiv(FMul(FromInt(600), FSub(c, f.d_prime)), FMax(c, EPS)), f.fy)

residual_info(c, a, inside_block, fs, fsp, Cc, term_comp, T) ==
    [R |-> FSub(FAdd(Cc, term_comp), T),
     info |-> [c |-> c, a |-> a, fs |-> fs, fsp |-> fsp, inside_block |-> inside_block,
               Cc |-> Cc, term_comp |-> term_comp]]

residual_forces(f, c, a, inside_block, fs, fsp) ==
    residual_info(c, a, inside_block, fs, fsp,
                  FMul(FMul(FMul(Dec(85, 2), f.fc), f.b), a),
                  IF inside_block THEN FMul(f.As_c, FSub(fsp, FMul(Dec(85, 2), f.fc))) ELSE Zero,
                  FMul(f.As_t, fs))

residual_inside(f, c, y_tension, y_comp, a, inside_block) ==
    residual_forces(f, c, a, inside_block, fs_of_c(f, c, y_tension),
                    IF inside_block THEN fsp_of_c(f, c, y_comp) ELSE Zero)

residual_block(f, c, y_tension, y_comp, a) ==
    residual_inside(f, c, y_tension, y_comp, a,
                    f.d_prime # None /\ FGe(FAdd(a, Dec(1, 9)), f.d_prime))

\* (R, info) of the equilibrium at neutral-axis depth c under a case's assumptions.
residual(f, c, y_tension, y_comp) == residual_block(f, c, y_tension, y_comp, FMul(f.beta1, c))

\* The sign test "x * y > 0" of two doubles (no product of residuals underflows).
ProductPositive(x, y) == x.s * y.s > 0

\* 0.5 * (c_lo + c_hi): a double rounds the sum's last bit half to even, so
\* does the grid value.
HalfEven(m) ==
    IF m[1] % 2 = 0 THEN MDivSmall(m, 2)
    ELSE IF MLimb(MDivSmall(m, 2), 1) % 2 = 0 THEN MDivSmall(m, 2)
    ELSE MAdd(MDivSmall(m, 2), <<1>>)

c_mid_of(c_lo, c_hi) == Mk(1, HalfEven(FAdd(c_lo, c_hi).m))

cases ==
    << [yt |-> TRUE,  yc_assume |-> TRUE,  label |-> "fs: yield, f's: yield"],
       [yt |-> TRUE,  yc_assume |-> FALSE, label |-> "fs: yield, f's: not yield"],
       [yt |-> FALSE, yc_assume |-> TRUE,  label |-> "fs: not yield, f's: yield"],
       [yt |-> FALSE, yc_assume |-> FALSE, label |-> "fs: not yield, f's: not yield"] >>

----------------------------------------------------------------------------
(* Shear (NSCP 2015).  q is the call's arguments as floats: b, d, fc,      *)
(* fy_stirrup, Vu_kN (None when absent), stirrup_dia, lightweight.         *)

\* The table maximum with its two branches exchanged.
s_table_max_exchanged(d, Vs_req_N, Vs_threshold_N) ==
    IF FLe(Vs_req_N, FAdd(Vs_threshold_N, Dec(1, 6)))
    THEN FMin(FDiv(d, FromInt(4)), FromInt(300))
    ELSE FMin(Half(d), FromInt(600))

s_table_max(d, Vs_req_N, Vs_threshold_N) ==
    IF FLe(Vs_req_N, FAdd(Vs_threshold_N, Dec(1, 6)))
    THEN FMin(Half(d), FromInt(600))
    ELSE FMin(FDiv(d, FromInt(4)), FromInt(300))

table_case(Vs_req_N, Vs_threshold_N) ==
    IF FLe(Vs_req_N, FAdd(Vs_threshold_N, Dec(1, 6)))
    THEN "Vs_req <= 0.33 sqrt(f'c) b d => s_max = min(d/2, 600) (Tbl 409.7.6.2.2)"
    ELSE "Vs_req > 0.33 sqrt(f'c) b d => s_max = min(d/4, 300) (Tbl 409.7.6.2.2)"

s_req(q, Av_mm2, Vs_req_N, s_table_max_mm) ==
    IF FLe(Vs_req_N, EPS) \/ FLe(Av_mm2, EPS) \/ FLe(q.d, EPS)
    THEN s_table_max_mm
    ELSE FDiv(FMul(FMul(Av_mm2, q.fy_stirrup), q.d), Vs_req_N)

governing(s_use_mm, s_req_mm, s_min_req_mm) ==
    IF FLe(FAbs(FSub(s_use_mm, s_req_mm)), Dec(1, 6)) THEN "strength"
    ELSE IF FLe(FAbs(FSub(s_use_mm, s_min_req_mm)), Dec(1, 6)) THEN "minimum"
    ELSE "table"

ok_strength(q, phiVn_kN) ==
    IF q.Vu_kN = None THEN TRUE ELSE FGe(FAdd(phiVn_kN, Dec(1, 6)), q.Vu_kN)

\* A dimension verdict that passes only when a demand was given.
ok_dim_given_demand(q, dim_limit_phiV_kN) ==
    q.Vu_kN # None /\ FLe(q.Vu_kN, FAdd(dim_limit_phiV_kN, Dec(1, 6)))

ok_dim(q, dim_limit_phiV_kN) ==
    IF q.Vu_kN = None THEN TRUE ELSE FLe(q.Vu_kN, FAdd(dim_limit_phiV_kN, Dec(1, 6)))

shear_result(q, lam, Vc_N, Vs_req_N, Vs_threshold_N, s_req_mm, s_min_req_mm, s_table_max_mm, s_use_mm, Vs_prov_N, phiVn_kN, dim_limit_phiV_kN) ==
    [phi |-> Dec(75, 2),
     lambda_concrete |-> lam,
     Vc_kN |-> FDiv(Vc_N, FromInt(1000)),
     Vs_req_kN |-> FDiv(Vs_req_N, FromInt(1000)),
     Vs_threshold_kN |-> FDiv(Vs_threshold_N, FromInt(1000)),
     table_case |-> table_case(Vs_req_N, Vs_threshold_N),
     s_req_mm |-> s_req_mm,
     s_min_req_mm |-> s_min_req_mm,
     s_table_max_mm |-> s_table_max_mm,
     s_use_mm |-> s_use_mm,
     governing_limit |-> governing(s_use_mm, s_req_mm, s_min_req_mm),
     Vs_prov_kN |-> FDiv(Vs_prov_N, FromInt(1000)),
     phiVn_kN |-> phiVn_kN,
     ok |-> ok_strength(q, phiVn_kN) /\ ok_dim(q, dim_limit_phiV_kN),
     dim_limit_phiV_kN |-> dim_limit_phiV_kN,
     ok_dim |-> ok_dim(q, dim_limit_phiV_kN)]

shear_provided(q, lam, Av_mm2, sqrt_fc, Vc_N, Vs_req_N, Vs_threshold_N, s_req_mm, s_min_req_mm, s_table_max_mm, s_use_mm, Vs_prov_N) ==
    shear_result(q, lam, Vc_N, Vs_req_N, Vs_threshold_N, s_req_mm, s_min_req_mm, s_table_max_mm,
                 s_use_mm, Vs_prov_N,
                 FDiv(FMul(Dec(75, 2), FAdd(Vc_N, Vs_prov_N)), FromInt(1000)),
                 FDiv(FMul(Dec(75, 2),
                           FAdd(Vc_N, FMul(FMul(FMul(FDiv(FromInt(2), FromInt(3)), sqrt_fc), q.b), q.d))),
                      FromInt(1000)))

shear_governing(q, lam, Av_mm2, sqrt_fc, Vc_N, Vs_req_N, Vs_threshold_N, s_req_mm, s_min_req_mm, s_table_max_mm, s_use_mm) ==
    shear_provided(q, lam, Av_mm2, sqrt_fc, Vc_N, Vs_req_N, Vs_threshold_N, s_req_mm, s_min_req_mm,
                   s_table_max_mm, s_use_mm,
                   FDiv(FMul(FMul(Av_mm2, q.fy_stirrup), q.d), FMax(s_use_mm, EPS)))

shear_spacings(q, lam, Av_mm2, sqrt_fc, Vc_N, Vs_req_N, Vs_threshold_N, s_req_mm, s_min_req_mm, s_table_max_mm) ==
    shear_governing(q, lam, Av_mm2, sqrt_fc, Vc_N, Vs_req_N, Vs_threshold_N, s_req_mm, s_min_req_mm,
                    s_table_max_mm, FMin(FMin(s_req_mm, s_min_req_mm), s_table_max_mm))

shear_table(q, lam, Av_mm2, sqrt_fc, Vc_N, Vs_req_N, Vs_threshold_N, s_table_max_mm) ==
    shear_spacings(q, lam, Av_mm2, sqrt_fc, Vc_N, Vs_req_N, Vs_threshold_N,
                   s_req(q, Av_mm2, Vs_req_N, s_table_max_mm),
                   FDiv(Av_mm2,
                        FMax(FMax(FDiv(FMul(FMul(Dec(62, 3), sqrt_fc), q.b), FMax(q.fy_stirrup, EPS)),
                                  FDiv(FMul(Dec(35, 2), q.b), FMax(q.fy_stirrup, EPS))),
                             EPS)),
                   s_table_max_mm)

shear_required(q, lam, Av_mm2, sqrt_fc, Vc_N, Vs_req_N, Vs_threshold_N) ==
    shear_table(q, lam, Av_mm2, sqrt_fc, Vc_N, Vs_req_N, Vs_threshold_N,
                s_table_max(q.d, Vs_req_N, Vs_threshold_N))

\* Vc = (1/6) lambda sqrt(fc) bw d
Vc_of(q, lam, sqrt_fc) ==
    FMul(FMul(FMul(FMul(FDiv(FromInt(1), FromInt(6)), lam), sqrt_fc), q.b), q.d)

shear_concrete(q, lam, Vu_N, Av_mm2, sqrt_fc, Vc_N) ==
    shear_required(q, lam, Av_mm2, sqrt_fc, Vc_N,
                   FMax(FSub(FDiv(Vu_N, Dec(75, 2)), Vc_N), Zero),
                   FMul(FMul(FMul(Dec(33, 2), sqrt_fc), q.b), q.d))

shear_sqrt(q, lam, Vu_N, Av_mm2, sqrt_fc) ==
    shear_concrete(q, lam, Vu_N, Av_mm2, sqrt_fc, Vc_of(q, lam, sqrt_fc))

calc_shear(q) ==
    shear_sqrt(q,
               IF q.lightweight THEN Dec(75, 2) ELSE FromInt(1),
               IF q.Vu_kN = None THEN Zero ELSE FMul(q.Vu_kN, FromInt(1000)),
               FMul(FromInt(2), area_of_bar(q.stirrup_dia)),
               FSqrt(q.fc))

----------------------------------------------------------------------------
(* The calls.  One behaviour is one call of place_bars (Spec), one call of  *)
(* calc_flexure on the bars place_bars returned (SpecFlexure), calls of     *)
(* calc_shear that differ in the factored shear only (SpecShear), or one    *)
(* call of run_calculation (SpecRun).                                       *)

VARIABLES
    call,       \* the function called: "place_bars", "calc_flexure", "calc_shear",
                \* "run_calculation"
    args,       \* its arguments (integers, Absent for None; Mu is a float)
    pc,         \* where the call stands
    placement,  \* what place_bars did
    fl,         \* calc_flexure's locals
    sv,         \* solve_for_case's locals
    flexure,    \* the dict calc_flexure returned
    shear,      \* the dict calc_shear returned
    earlier,    \* the earlier calls of calc_shear: their Vu_kN and s_use_mm
    run,        \* run_calculation's locals
    report      \* the object run_calculation returned

vars == <<call, args, pc, placement, fl, sv, flexure, shear, earlier, run, report>>

Absent == -1
Opt(v) == IF v = Absent THEN None ELSE FromInt(v)

Idle == [idle |-> TRUE]

\* ---- place_bars
MaxTension == 9
MaxCompression == 4

TensionDias == {16, 20}

\* The arguments of a call with at least `fewest` tension bars.
PlaceArgs(fewest) ==
    [width : {200, 300}, height : {200, 500}, cover : {40, 75, 90}, stirrup_dia : {10},
     n_tension : fewest..MaxTension, db_tension : TensionDias,
     n_compression : 0..MaxCompression, db_compression : {Absent, 20, 36},
     agg_size : {Absent, 25}]

\* A call from run_calculation: the request was validated (n_tension >= 2).
MinTension == 2

Init ==
    /\ call = "place_bars"
    /\ args \in PlaceArgs(MinTension)
    /\ pc = "call"
    /\ placement = Idle /\ fl = Idle /\ sv = Idle /\ flexure = Idle /\ shear = Idle
    /\ earlier = <<>>
    /\ run = Idle /\ report = Idle

\* A direct call of place_bars, with any positive number of tension bars.
InitDirect ==
    /\ call = "place_bars"
    /\ args \in PlaceArgs(1)
    /\ pc = "call"
    /\ placement = Idle /\ fl = Idle /\ sv = Idle /\ flexure = Idle /\ shear = Idle
    /\ earlier = <<>>
    /\ run = Idle /\ report = Idle

PlaceBarsDone(res) ==
    /\ placement' = res
    /\ pc' = IF res.status = "loops" THEN "pad_loop"
             ELSE IF res.status = "ValueError" THEN "raised"
             ELSE IF call = "calc_flexure" THEN "flex_call"
             ELSE IF call = "run_calculation" THEN "ratios"
             ELSE "returned"
    /\ UNCHANGED <<call, args, fl, sv, flexure, shear, earlier, run, report>>

PlaceBars ==
    /\ pc = "call"
    /\ PlaceBarsDone(place_bars(FromInt(args.width), FromInt(args.height), FromInt(args.cover),
                                FromInt(args.stirrup_dia), args.n_tension,
                                FromInt(args.db_tension), args.n_compression,
                                IF call = "run_calculation" /\ args.n_compression = 0
                                THEN None ELSE Opt(args.db_compression),
                                Opt(args.agg_size)))

\* One more pass of the while loop of pick_second_row_positions that no pass ends.
PadLoop ==
    /\ pc = "pad_loop"
    /\ UNCHANGED vars

Next == PlaceBars \/ PadLoop

Spec == Init /\ [][Next]_vars

SpecDirect == InitDirect /\ [][Next]_vars

\* ---- calc_flexure
InitFlexure ==
    /\ call = "calc_flexure"
    /\ args \in [width : {300, 2000}, height : {500}, cover : {40}, stirrup_dia : {10},
                 n_tension : {1, 4}, db_tension : TensionDias,
                 n_compression : {0, 2}, db_compression : {20},
                 agg_size : {Absent}, fc : {21, 50}, fy : {275, 415}]
    /\ pc = "call"
    /\ placement = Idle /\ fl = Idle /\ sv = Idle /\ flexure = Idle /\ shear = Idle
    /\ earlier = <<>>
    /\ run = Idle /\ report = Idle

\* The argument bars: run_calculation passes bars_for_calc.
FlexureBars == IF call = "run_calculation" THEN run.bars_for_calc ELSE placement.bars

FlexureFramed(h, As_t, As_c, y_t, y_c) ==
    /\ fl' = [b |-> FromInt(args.width), h |-> h, fc |-> FromInt(args.fc), fy |-> FromInt(args.fy),
              beta1 |-> beta1_of_fc(FromInt(args.fc)),
              As_t |-> As_t, As_c |-> As_c,
              d |-> IF y_t = NaN THEN NaN ELSE FSub(h, y_t),
              d_prime |-> IF FGt(As_c, EPS) /\ y_c # NaN THEN FSub(h, y_c) ELSE None,
              assumptions_tried |-> <<>>,
              case |-> 1, chosen |-> None, c |-> None, info |-> None]
    /\ pc' = "solve"
    /\ UNCHANGED <<call, args, placement, sv, flexure, shear, earlier, run, report>>

FlexureAreas(h, As_t, As_c) ==
    FlexureFramed(h, As_t, As_c, centroid_of_role(FlexureBars, "tension"),
                  IF FGt(As_c, EPS) THEN centroid_of_role(FlexureBars, "compression") ELSE NaN)

\* calc_flexure up to its case loop.
FlexureBegin ==
    /\ pc = "flex_call"
    /\ FlexureAreas(FromInt(args.height), sum_area(FlexureBars, "tension"),
                    sum_area(FlexureBars, "compression"))

Residual(c) == residual(fl, c, cases[fl.case].yt, cases[fl.case].yc_assume)

MaxExpansions == 60
MaxBisections == 100

\* solve_for_case up to its while loop.
SolveBegin ==
    /\ pc = "solve"
    /\ sv' = [c_lo |-> FromInt(1), c_hi |-> FMax(FromInt(50), FMul(Dec(9, 1), fl.d)),
              R_lo |-> Residual(FromInt(1)).R,
              R_hi |-> Residual(FMax(FromInt(50), FMul(Dec(9, 1), fl.d))).R,
              it |-> 0, k |-> 0, c_mid |-> None, info_mid |-> None,
              c_try |-> None, info_try |-> None]
    /\ pc' = "bracket"
    /\ UNCHANGED <<call, args, placement, fl, flexure, shear, earlier, run, report>>

\* One pass of the bracket-expansion loop.
Expand ==
    /\ pc = "bracket"
    /\ ProductPositive(sv.R_lo, sv.R_hi) /\ sv.it < MaxExpansions
    /\ sv' = [sv EXCEPT !.c_hi = FMul(sv.c_hi, Dec(15, 1)),
                        !.R_hi = Residual(FMul(sv.c_hi, Dec(15, 1))).R,
                        !.it = @ + 1]
    /\ UNCHANGED <<call, args, pc, placement, fl, flexure, shear, earlier, run, report>>

FailedToBracket ==
    /\ pc = "bracket"
    /\ ProductPositive(sv.R_lo, sv.R_hi) /\ sv.it >= MaxExpansions
    /\ sv' = [sv EXCEPT !.c_try = None, !.info_try = [note |-> "Failed to bracket root"]]
    /\ pc' = "tried"
    /\ UNCHANGED <<call, args, placement, fl, flexure, shear, earlier, run, report>>

Bracketed ==
    /\ pc = "bracket"
    /\ ~ProductPositive(sv.R_lo, sv.R_hi)
    /\ pc' = "bisect"
    /\ UNCHANGED <<call, args, placement, fl, sv, flexure, shear, earlier, run, report>>

BisectOn(c_mid, mid) ==
    /\ sv' = IF FLt(FAbs(mid.R), Dec(1, 3))
             THEN [sv EXCEPT !.c_mid = c_mid, !.info_mid = mid.info,
                             !.c_try = c_mid, !.info_try = mid.info]
             ELSE IF ProductPositive(sv.R_lo, mid.R)
             THEN [sv EXCEPT !.c_mid = c_mid, !.info_mid = mid.info, !.k = @ + 1,
                             !.c_lo = c_mid, !.R_lo = mid.R]
             ELSE [sv EXCEPT !.c_mid = c_mid, !.info_mid = mid.info, !.k = @ + 1,
                             !.c_hi = c_mid, !.R_hi = mid.R]
    /\ pc' = IF FLt(FAbs(mid.R), Dec(1, 3)) THEN "tried" ELSE "bisect"
    /\ UNCHANGED <<call, args, placement, fl, flexure, shear, earlier, run, report>>

\* One pass of the bisection loop.
BisectStep ==
    /\ pc = "bisect"
    /\ sv.k < MaxBisections
    /\ BisectOn(c_mid_of(sv.c_lo, sv.c_hi), Residual(c_mid_of(sv.c_lo, sv.c_hi)))

\* The bisection loop ran out: solve_for_case returns the last midpoint.
BisectExhausted ==
    /\ pc = "bisect"
    /\ sv.k >= MaxBisections
    /\ sv' = [sv EXCEPT !.c_try = sv.c_mid, !.info_try = sv.info_mid]
    /\ pc' = "tried"
    /\ UNCHANGED <<call, args, placement, fl, flexure, shear, earlier, run, report>>

\* "continue" and the end of the for loop over the cases.
NextCase(tried) ==
    /\ fl' = [fl EXCEPT !.assumptions_tried = Append(@, tried),
                        !.case = IF @ < Len(cases) THEN @ + 1 ELSE @]
    /\ pc' = IF fl.case < Len(cases) THEN "solve" ELSE "fallback"

CaseNoRoot ==
    /\ pc = "tried"
    /\ sv.c_try = None
    /\ NextCase([case |-> cases[fl.case].label, status |-> "no-root"])
    /\ UNCHANGED <<call, args, placement, sv, flexure, shear, earlier, run, report>>

\* A case loop without its break: a consistent case is recorded and the next
\* case is tried all the same.
CaseRecordedWithoutBreak(tried) ==
    /\ NextCase(tried)
    /\ UNCHANGED <<call, args, placement, sv, flexure, shear, earlier, run, report>>

CaseJudged(tried) ==
    /\ IF tried.consistent
       THEN /\ fl' = [fl EXCEPT !.assumptions_tried = Append(@, tried),
                                !.chosen = fl.case, !.c = sv.c_try, !.info = sv.info_try]
            /\ pc' = "finish"
       ELSE NextCase(tried)
    /\ UNCHANGED <<call, args, placement, sv, flexure, shear, earlier, run, report>>

CaseYields(fs_val, fsp_val, fs_yield_actual, fsp_yield_actual) ==
    CaseJudged([case |-> cases[fl.case].label,
                c_mm |-> sv.c_try, a_mm |-> sv.info_try.a,
                fs_MPa |-> fs_val, fs_yield |-> fs_yield_actual,
                fsp_MPa |-> fsp_val, fsp_yield |-> fsp_yield_actual,
                inside_block |-> sv.info_try.inside_block,
                consistent |-> (fs_yield_actual = cases[fl.case].yt)
                               /\ (fsp_yield_actual = cases[fl.case].yc_assume)])

CaseStresses(fs_val, fsp_val) ==
    CaseYields(fs_val, fsp_val,
               FGe(FAbs(fs_val), FSub(fl.fy, Dec(1, 6))),
               FGe(FAbs(fsp_val), FSub(fl.fy, Dec(1, 6))))

\* The consistency check of a case that returned a depth.
CaseTried ==
    /\ pc = "tried"
    /\ sv.c_try # None
    /\ CaseStresses(fs_of_c(fl, sv.c_try, cases[fl.case].yt),
                    IF sv.info_try.inside_block
                    THEN fsp_of_c(fl, sv.c_try, cases[fl.case].yc_assume) ELSE Zero)

Last(q) == q[Len(q)]

\* A fallback that reports the first case instead of the last.
FallbackAtFirstCase(c) ==
    /\ fl' = [fl EXCEPT !.chosen = 1, !.c = c,
                        !.info = residual(fl, c, cases[1].yt, cases[1].yc_assume).info]
    /\ pc' = "finish"
    /\ UNCHANGED <<call, args, placement, sv, flexure, shear, earlier, run, report>>

FallbackAt(c) ==
    /\ fl' = [fl EXCEPT !.chosen = Len(cases), !.c = c,
                        !.info = residual(fl, c, cases[Len(cases)].yt,
                                          cases[Len(cases)].yc_assume).info]
    /\ pc' = "finish"
    /\ UNCHANGED <<call, args, placement, sv, flexure, shear, earlier, run, report>>

\* No case was consistent: the last case with the last trail entry's depth.
Fallback ==
    /\ pc = "fallback"
    /\ FallbackAt(IF "c_mm" \in DOMAIN Last(fl.assumptions_tried)
                  THEN Last(fl.assumptions_tried).c_mm
                  ELSE FMul(Dec(5, 1), fl.h))

Strain(c) == FDiv(FSub(fl.d, c), FMax(c, EPS))

FinishMoment(a, eps_t, fs_final, Cc, with_steel, fsp_final) ==
    /\ flexure' = [beta1 |-> fl.beta1, d |-> fl.d, d_prime |-> fl.d_prime, a |-> a, c |-> fl.c,
                   eps_t |-> eps_t, fs_t |-> fs_final, fs_c |-> fsp_final,
                   phi |-> phi_flexure_from_strain(eps_t),
                   Mn_Nmm |-> IF with_steel
                              THEN FAdd(FMul(Cc, FSub(fl.d, Half(a))),
                                        FMul(FMul(fl.As_c, FMax(fsp_final, Zero)),
                                             FSub(fl.d, fl.d_prime)))
                              ELSE FMul(Cc, FSub(fl.d, Half(a))),
                   derivation |-> [beta1 |-> fl.beta1, d_mm |-> fl.d, d_prime_mm |-> fl.d_prime,
                                   assumptions_tried |-> fl.assumptions_tried],
                   assumption_used |-> cases[fl.chosen].label]
    /\ pc' = IF call = "run_calculation" THEN "run_shear" ELSE "returned"
    /\ UNCHANGED <<call, args, placement, fl, sv, shear, earlier, run, report>>

FinishForces(a, with_steel) ==
    FinishMoment(a, FMax(FMul(Dec(3, 3), Strain(fl.c)), Zero),
                 IF cases[fl.chosen].yt THEN fl.fy
                 ELSE Clamp(FMul(FromInt(600), Strain(fl.c)), fl.fy),
                 FMul(FMul(FMul(Dec(85, 2), fl.fc), fl.b), a),
                 with_steel,
                 IF ~with_steel THEN Zero
                 ELSE IF cases[fl.chosen].yc_assume THEN fl.fy
                 ELSE Clamp(FDiv(FMul(FromInt(600), FSub(fl.c, fl.d_prime)), FMax(fl.c, EPS)), fl.fy))

\* The strain, phi, the final forces and the nominal moment.
Finish ==
    /\ pc = "finish"
    /\ FinishForces(fl.info.a, fl.d_prime # None /\ fl.info.inside_block /\ FGt(fl.As_c, EPS))

NextFlexure ==
    \/ PlaceBars
    \/ FlexureBegin
    \/ SolveBegin
    \/ Expand
    \/ FailedToBracket
    \/ Bracketed
    \/ BisectStep
    \/ BisectExhausted
    \/ CaseNoRoot
    \/ CaseTried
    \/ Fallback
    \/ Finish

SpecFlexure == InitFlexure /\ [][NextFlexure]_vars

\* ---- calc_shear
MaxCalls == 2

\* The factored shear: absent, a number of kN, or exactly phi * Vc.
Demands ==
    {[kind |-> "absent", kN |-> 0], [kind |-> "phi_Vc", kN |-> 0]}
    \cup {[kind |-> "kN", kN |-> n] : n \in {0, 250, 400, 1600}}

InitShear ==
    /\ call = "calc_shear"
    /\ args \in [b : {300}, d : {440, 1300}, fc : {21}, fy_stirrup : {275, 415},
                 Vu : Demands, stirrup_dia : {10, 12}, lightweight : BOOLEAN]
    /\ pc = "shear_call"
    /\ placement = Idle /\ fl = Idle /\ sv = Idle /\ flexure = Idle /\ shear = Idle
    /\ earlier = <<>>
    /\ run = Idle /\ report = Idle

\* Vu_kN of the call: phi * Vc / 1000 for the demand that equals phi * Vc.
Vu_kN_of(a) ==
    IF a.Vu.kind = "absent" THEN None
    ELSE IF a.Vu.kind = "kN" THEN FromInt(a.Vu.kN)
    ELSE FDiv(FMul(Dec(75, 2),
                   Vc_of([b |-> FromInt(a.b), d |-> FromInt(a.d)], IF a.lightweight THEN Dec(75, 2) ELSE FromInt(1),
                         FSqrt(FromInt(a.fc)))),
              FromInt(1000))

ShearQuery(a) ==
    [b |-> FromInt(a.b), d |-> FromInt(a.d), fc |-> FromInt(a.fc),
     fy_stirrup |-> FromInt(a.fy_stirrup), Vu_kN |-> Vu_kN_of(a),
     stirrup_dia |-> FromInt(a.stirrup_dia), lightweight |-> a.lightweight]

CalcShear ==
    /\ pc = "shear_call"
    /\ shear' = calc_shear(ShearQuery(args))
    /\ pc' = "returned"
    /\ UNCHANGED <<call, args, placement, fl, sv, flexure, earlier, run, report>>

\* The caller asks again with another factored shear and nothing else changed.
CallAgain ==
    /\ pc = "returned"
    /\ call = "calc_shear"
    /\ Len(earlier) + 1 < MaxCalls
    /\ \E Vu \in Demands :
          /\ Vu # args.Vu
          /\ args' = [args EXCEPT !.Vu = Vu]
    /\ earlier' = Append(earlier, [Vu |-> args.Vu, s_use_mm |-> shear.s_use_mm])
    /\ pc' = "shear_call"
    /\ UNCHANGED <<call, placement, fl, sv, flexure, shear, run, report>>

NextShear == CalcShear \/ CallAgain

SpecShear == InitShear /\ [][NextShear]_vars

\* ---- run_calculation
\* float("inf")
Inf == [inf |-> TRUE]

\* The payload of a validated request.  Mu is the float the request carried.
InitRun ==
    /\ call = "run_calculation"
    /\ args \in {a \in [width : {200, 300}, height : {500}, cover : {40}, stirrup_dia : {10},
                        n_tension : {2, 4, 6, MaxTension}, db_tension : TensionDias,
                        n_compression : {0, 2}, db_compression : {Absent, 20},
                        agg_size : {Absent}, fc : {21}, fy : {415}, fy_stirrup : {275},
                        Mu : {FromInt(100), NaN, Inf}, Vu : {Absent, 250}, lightweight : {FALSE}] :
                    a.n_compression > 0 => a.db_compression # Absent}
    /\ pc = "call"
    /\ placement = Idle /\ fl = Idle /\ sv = Idle /\ flexure = Idle /\ shear = Idle
    /\ earlier = <<>>
    /\ run = Idle /\ report = Idle

\* The bars calc_flexure is given: the placed bars alone, whatever the steel area.
bars_as_placed(As_t, y_t, As_min) == placement.bars

\* The bars calc_flexure is given: rho_min is enforced with a virtual bar.
bars_for_calc(As_t, y_t, As_min) ==
    IF FLt(FAdd(As_t, Dec(1, 9)), As_min)
    THEN Append(placement.bars,
                Bar(Half(FAdd(placement.stirrup_inside.x_min, placement.stirrup_inside.x_max)),
                    y_t, FSqrt(FDiv(FMul(FromInt(4), FSub(As_min, As_t)), Pi)), "tension", 1))
    ELSE placement.bars

RunLocals(b, As_t, y_t, d_eff, rho_max, rho_min, rho_prov, factor, As_min) ==
    [As_t |-> As_t, y_t |-> y_t, d_eff |-> d_eff, rho_max |-> rho_max, rho_min |-> rho_min,
     rho_prov |-> rho_prov,
     rho_over |-> FGt(rho_prov, FAdd(rho_max, Dec(1, 6))),
     rho_over_msg |-> IF FGt(rho_prov, FAdd(rho_max, Dec(1, 6)))
                      THEN "Tension steel ratio exceeds rho_max" ELSE None,
     As_max_allowed |-> FMul(FMul(rho_max, b), d_eff),
     As_reduction_needed_pct |-> FMul(FSub(FromInt(1), FDiv(FromInt(1), factor)), FromInt(100)),
     bd_increase_needed_pct |-> FMul(FSub(factor, FromInt(1)), FromInt(100)),
     As_min |-> As_min,
     bars_for_calc |-> bars_for_calc(As_t, y_t, As_min),
     used_rho_min |-> FLt(FAdd(As_t, Dec(1, 9)), As_min)]

RunProvided(b, As_t, y_t, d_eff, rho_max, rho_min, rho_prov) ==
    /\ run' = RunLocals(b, As_t, y_t, d_eff, rho_max, rho_min, rho_prov,
                        FDiv(rho_prov, FMax(rho_max, EPS)), FMul(FMul(rho_min, b), d_eff))
    /\ pc' = "flex_call"
    /\ UNCHANGED <<call, args, placement, fl, sv, flexure, shear, earlier, report>>

RunSection(b, As_t, y_t, d_eff, fc, fy) ==
    RunProvided(b, As_t, y_t, d_eff,
                FMul(Dec(375, 3), FDiv(FMul(FMul(Dec(85, 2), beta1_of_fc(fc)), fc), FMax(fy, EPS))),
                FMax(FDiv(Dec(14, 1), FMax(fy, EPS)),
                     FDiv(FMul(Dec(25, 2), FSqrt(fc)), FMax(fy, EPS))),
                FDiv(As_t, FMax(FMul(b, d_eff), EPS)))

\* The ratios, the suggested changes and the bars for the capacity.
RunRatios ==
    /\ pc = "ratios"
    /\ RunSection(FromInt(args.width), sum_area(placement.bars, "tension"),
                  centroid_of_role(placement.bars, "tension"),
                  FSub(FromInt(args.height), centroid_of_role(placement.bars, "tension")),
                  FromInt(args.fc), FromInt(args.fy))

\* A Python value with its type: "float", "dict", "list", "tuple", or "other"
\* (None, bool, int, str).
PyValue(type, v) == [type |-> type, v |-> v]

\* A dict of floats, None, bools, ints and strings, the latter under the keys
\* listed.
PyDict(r) ==
    PyValue("dict",
            [k \in DOMAIN r |->
                IF \/ k \in {"role", "layer", "case", "status", "note", "fs_yield",
                              "fsp_yield", "inside_block", "consistent", "table_case",
                              "governing_limit", "ok", "ok_dim", "assumption_used",
                              "lightweight", "used_rho_min_for_capacity", "rho_over",
                              "rho_over_msg", "rho_max_ok"}
                   \/ r[k] = None
                THEN PyValue("other", r[k]) ELSE PyValue("float", r[k])])

PyDicts(rs) == PyValue("list", [i \in DOMAIN rs |-> PyDict(rs[i])])

\* A sanitizer that looks at the top-level value only.
json_safe_shallow(x) ==
    CASE x.type = "float" -> IF x.v \in {NaN, Inf} THEN PyValue("other", None) ELSE x
      [] OTHER -> x

RECURSIVE json_safe(_)
json_safe(x) ==
    CASE x.type = "float" -> IF x.v \in {NaN, Inf} THEN PyValue("other", None) ELSE x
      [] x.type = "dict" -> PyValue("dict", [k \in DOMAIN x.v |-> json_safe(x.v[k])])
      [] x.type \in {"list", "tuple"} -> PyValue("list", [i \in DOMAIN x.v |-> json_safe(x.v[i])])
      [] OTHER -> x

\* The dict calc_flexure returned, as run_calculation puts it into the report.
flex_dict(flex) ==
    PyValue("dict",
            [k \in DOMAIN flex |->
                IF k = "derivation"
                THEN PyValue("dict",
                             [j \in DOMAIN flex.derivation |->
                                 IF j = "assumptions_tried"
                                 THEN PyDicts(flex.derivation.assumptions_tried)
                                 ELSE PyDict(flex.derivation).v[j]])
                ELSE PyDict([flex EXCEPT !.derivation = None]).v[k]])

out(phiMn_kNm, flex_ok) ==
    PyValue("dict",
        [valid |-> PyValue("other", TRUE),
         geom |-> PyDict([b_mm |-> FromInt(args.width), h_mm |-> FromInt(args.height),
                          cover_mm |-> FromInt(args.cover), fc_MPa |-> FromInt(args.fc),
                          agg_mm |-> Opt(args.agg_size),
                          stirrup_dia_mm |-> FromInt(args.stirrup_dia),
                          tension_dia_mm |-> FromInt(args.db_tension),
                          compression_dia_mm |-> IF args.n_compression > 0
                                                 THEN Opt(args.db_compression) ELSE None,
                          fy_main_MPa |-> FromInt(args.fy),
                          fy_stirrup_MPa |-> FromInt(args.fy_stirrup),
                          Mu_kNm |-> args.Mu, Vu_kN |-> Opt(args.Vu),
                          lightweight |-> args.lightweight]),
         reinforcement |->
             PyDict([tension_As_mm2 |-> run.As_t, d_mm |-> run.d_eff, rho |-> run.rho_prov,
                     rho_min |-> run.rho_min, rho_max |-> run.rho_max,
                     As_min_mm2 |-> run.As_min,
                     used_rho_min_for_capacity |-> run.used_rho_min,
                     rho_over |-> run.rho_over, rho_over_msg |-> run.rho_over_msg,
                     As_max_allowed_mm2 |-> run.As_max_allowed,
                     As_reduction_needed_pct |-> run.As_reduction_needed_pct,
                     bd_increase_needed_pct |-> run.bd_increase_needed_pct]),
         rebar_layout |-> PyValue("dict", [bars |-> PyDicts(placement.bars),
                                           stirrup_inside |-> PyDict(placement.stirrup_inside)]),
         checks |-> PyValue("dict",
                        [flexure |-> flex_dict(flexure),
                         flexure_ok |-> PyValue("other", flex_ok),
                         flexure_capacity_kNm |-> PyValue("float", phiMn_kNm),
                         shear |-> PyDict(shear'),
                         code_compliance |-> PyDict([rho_max_ok |-> ~run.rho_over])]),
         latex |-> PyValue("other", "build_latex(out)")])

RunReport(phiMn_kNm) ==
    /\ shear' = calc_shear([b |-> FromInt(args.width), d |-> flexure.d, fc |-> FromInt(args.fc),
                            fy_stirrup |-> FromInt(args.fy_stirrup), Vu_kN |-> Opt(args.Vu),
                            stirrup_dia |-> FromInt(args.stirrup_dia),
                            lightweight |-> args.lightweight])
    /\ report' = json_safe(out(phiMn_kNm,
                               args.Mu \notin {NaN, Inf}
                               /\ FGe(FAdd(phiMn_kNm, Dec(1, 6)), args.Mu)))
    /\ pc' = "returned"
    /\ UNCHANGED <<call, args, placement, fl, sv, flexure, earlier, run>>

\* The capacity check, calc_shear, the report and its sanitizing.
RunFinish ==
    /\ pc = "run_shear"
    /\ RunReport(FDiv(FMul(flexure.phi, flexure.Mn_Nmm), FromInt(1000000)))

\* The steps of a validated request.  With at least rho_min * b * d of tension
\* steel every case brackets a root between 1 mm and its first upper bound, so
\* the steps of a case without a root are not among them.
NextRun ==
    \/ PlaceBars
    \/ PadLoop
    \/ RunRatios
    \/ FlexureBegin
    \/ SolveBegin
    \/ Bracketed
    \/ BisectStep
    \/ BisectExhausted
    \/ CaseTried
    \/ Finish
    \/ RunFinish

SpecRun == InitRun /\ [][NextRun]_vars

----------------------------------------------------------------------------
(* Claims about place_bars, checked under Spec (C3 under SpecDirect). *)

\* C1: every bar of a returned placement has its centre x within
\* [inside_x_min + db/2, inside_x_max - db/2] and its centre y within
\* [inside_y_min, inside_y_max].
C1_EnvelopeContainment ==
    pc = "returned" /\ call = "place_bars" =>
        \A i \in 1..Len(placement.bars) :
            /\ FGe(placement.bars[i].x_mm,
                   FAdd(placement.stirrup_inside.x_min, Half(placement.bars[i].dia_mm)))
            /\ FLe(placement.bars[i].x_mm,
                   FSub(placement.stirrup_inside.x_max, Half(placement.bars[i].dia_mm)))
            /\ FGe(placement.bars[i].y_mm, placement.stirrup_inside.y_min)
            /\ FLe(placement.bars[i].y_mm, placement.stirrup_inside.y_max)

\* C1, the case found: a returned single-layer placement whose tension row
\* has its centre above the top of the envelope.
C1_SingleLayerAboveEnvelope ==
    /\ pc = "returned" /\ call = "place_bars"
    /\ \A i \in 1..Len(placement.bars) : placement.bars[i].layer = 1
    /\ \E i \in 1..Len(placement.bars) :
          /\ placement.bars[i].role = "tension"
          /\ FGt(placement.bars[i].y_mm, placement.stirrup_inside.y_max)

\* C2: two distinct bars of a returned placement with the same role and the
\* same layer are at least db + min_clear_spacing(db, agg_size) apart in x.
C2_SameLayerSpacing ==
    pc = "returned" /\ call = "place_bars" =>
        \A i, j \in 1..Len(placement.bars) :
            (/\ i < j
             /\ placement.bars[i].role = placement.bars[j].role
             /\ placement.bars[i].layer = placement.bars[j].layer)
            => FGe(FAbs(FSub(placement.bars[i].x_mm, placement.bars[j].x_mm)),
                   FAdd(placement.bars[i].dia_mm,
                        min_clear_spacing(placement.bars[i].dia_mm, Opt(args.agg_size))))

\* C2, the case found: a remainder of 3 above a bottom row of 2 puts two
\* layer-2 tension bars at one position.
C2_TwoBarsAtOnePosition ==
    /\ pc = "returned" /\ call = "place_bars"
    /\ \E i, j \in 1..Len(placement.bars) :
          /\ i < j
          /\ placement.bars[i].role = "tension" /\ placement.bars[j].role = "tension"
          /\ placement.bars[i].layer = 2 /\ placement.bars[j].layer = 2
          /\ placement.bars[i].x_mm = placement.bars[j].x_mm

\* C3: a returned placement has n_tension tension bars and, when compression
\* bars are asked for with a positive diameter, n_compression compression
\* bars (none otherwise).
C3_BarCounts ==
    pc = "returned" /\ call = "place_bars" =>
        /\ Len(OfRole(placement.bars, "tension")) = args.n_tension
        /\ Len(OfRole(placement.bars, "compression"))
              = IF args.n_compression > 0 /\ args.db_compression # Absent
                     /\ args.db_compression > 0
                THEN args.n_compression ELSE 0

\* C3, the case found: compression bars were asked for with a diameter and a
\* placement was returned without any.
C3_CompressionBarsDropped ==
    /\ pc = "returned" /\ call = "place_bars"
    /\ args.n_compression > 0 /\ args.db_compression # Absent
    /\ Len(OfRole(placement.bars, "compression")) = 0

\* C4: on either face, a requested count above a one-row capacity below 2
\* ends the call in ValueError.
C4_CapacityBelowTwoRaises ==
    pc \in {"returned", "raised", "pad_loop"} /\ call = "place_bars" =>
        LET b_inside == FSub(placement.stirrup_inside.x_max, placement.stirrup_inside.x_min)
            cap1 == max_bars_one_row(b_inside, FromInt(args.db_tension),
                        min_clear_spacing(FromInt(args.db_tension), Opt(args.agg_size)))
            capc == max_bars_one_row(b_inside, FromInt(args.db_compression),
                        min_clear_spacing(FromInt(args.db_compression), Opt(args.agg_size)))
        IN /\ (args.n_tension > cap1 /\ cap1 < 2) => placement.status = "ValueError"
           /\ (/\ args.n_compression > 0 /\ args.db_compression # Absent
               /\ args.n_compression > capc /\ capc < 2)
              => placement.status = "ValueError"

\* C4, the case found: more compression bars than a capacity of 1, and the
\* call returned a placement.
C4_CompressionBelowTwoReturns ==
    /\ pc = "returned" /\ call = "place_bars"
    /\ args.n_compression > 1 /\ args.db_compression # Absent
    /\ max_bars_one_row(FSub(placement.stirrup_inside.x_max, placement.stirrup_inside.x_min),
                        FromInt(args.db_compression),
                        min_clear_spacing(FromInt(args.db_compression), Opt(args.agg_size))) = 1


\* C10: a returned placement of more tension bars than the one-row capacity
\* cap (cap >= 2) has cap tension bars at layer 1 and n_tension - cap at
\* layer 2; every layer-2 bar is at y = y_layer1 + db + 25 and at the x of a
\* layer-1 bar; a remainder of 2 or more has bars above the leftmost and
\* the rightmost layer-1 bar.  300 x 500, cover 40, stirrup 10, 9 bars of
\* diameter 20 and no aggregate size: 5 bars at layer 1 and 4 at layer 2.
C10_TwoLayerSplit ==
    pc = "returned" /\ call = "place_bars" =>
        LET cap == max_bars_one_row(
                       FSub(placement.stirrup_inside.x_max, placement.stirrup_inside.x_min),
                       FromInt(args.db_tension),
                       min_clear_spacing(FromInt(args.db_tension), Opt(args.agg_size)))
            tension == OfRole(placement.bars, "tension")
            layer1 == SelectSeq(tension, LAMBDA bar : bar.layer = 1)
            layer2 == SelectSeq(tension, LAMBDA bar : bar.layer = 2)
            x1 == {layer1[i].x_mm : i \in 1..Len(layer1)}
            x2 == {layer2[i].x_mm : i \in 1..Len(layer2)}
        IN /\ (args.n_tension > cap /\ cap >= 2) =>
                 /\ Len(layer1) = cap
                 /\ Len(layer2) = args.n_tension - cap
                 /\ Len(layer1) + Len(layer2) = Len(tension)
                 /\ \A i \in 1..Len(layer2) :
                       /\ \A j \in 1..Len(layer1) :
                             layer2[i].y_mm
                                = FAdd(FAdd(layer1[j].y_mm, FromInt(args.db_tension)), FromInt(25))
                       /\ layer2[i].x_mm \in x1
                 /\ args.n_tension - cap >= 2 =>
                       \A x \in x1 : (\A y \in x1 : FLe(x, y)) \/ (\A y \in x1 : FGe(x, y))
                                     => x \in x2
           /\ (/\ args.width = 300 /\ args.height = 500 /\ args.cover = 40
               /\ args.stirrup_dia = 10 /\ args.n_tension = 9 /\ args.db_tension = 20
               /\ args.agg_size = Absent)
              => Len(layer1) = 5 /\ Len(layer2) = 4

\* C10's case: the 9-bar scenario returned with a second layer of 4 bars.
C10_NineBarsInTwoLayers ==
    /\ pc = "returned" /\ call = "place_bars"
    /\ args.width = 300 /\ args.height = 500 /\ args.cover = 40 /\ args.stirrup_dia = 10
    /\ args.n_tension = 9 /\ args.db_tension = 20 /\ args.agg_size = Absent
    /\ Len(SelectSeq(placement.bars, LAMBDA bar : bar.role = "tension" /\ bar.layer = 2)) = 4

----------------------------------------------------------------------------
(* Claims about calc_flexure, checked under SpecFlexure. *)

\* C5: for 300 x 500, cover 40, stirrup 10, 4 tension bars of diameter 20,
\* no compression bars, fc 21 and fy 415, placement yields 4 tension bars in
\* one row at layer 1 and calc_flexure reports the both-yield case as the
\* assumption used, eps_t >= 0.005 and phi = 0.90.
C5_ScenarioBothYield ==
    (/\ pc = "returned" /\ call = "calc_flexure"
     /\ args.width = 300 /\ args.height = 500 /\ args.cover = 40 /\ args.stirrup_dia = 10
     /\ args.n_tension = 4 /\ args.db_tension = 20 /\ args.n_compression = 0
     /\ args.fc = 21 /\ args.fy = 415)
    => /\ Len(placement.bars) = 4
       /\ \A i \in 1..4 : /\ placement.bars[i].role = "tension"
                          /\ placement.bars[i].layer = 1
                          /\ placement.bars[i].y_mm = placement.bars[1].y_mm
       /\ flexure.assumption_used = "fs: yield, f's: yield"
       /\ FGe(flexure.eps_t, Dec(5, 3))
       /\ flexure.phi = Dec(90, 2)

\* C5 as amended: in that scenario calc_flexure records the both-yield case
\* as inconsistent (the absent compression steel has stress 0, which does not
\* yield) and reports the next case, tension yields and compression does not,
\* with eps_t >= 0.005 and phi = 0.90.
C5_ScenarioTensionYieldOnly ==
    (/\ pc = "returned" /\ call = "calc_flexure"
     /\ args.width = 300 /\ args.height = 500 /\ args.cover = 40 /\ args.stirrup_dia = 10
     /\ args.n_tension = 4 /\ args.db_tension = 20 /\ args.n_compression = 0
     /\ args.fc = 21 /\ args.fy = 415)
    => /\ Len(placement.bars) = 4
       /\ \A i \in 1..4 : /\ placement.bars[i].role = "tension"
                          /\ placement.bars[i].layer = 1
                          /\ placement.bars[i].y_mm = placement.bars[1].y_mm
       /\ Len(flexure.derivation.assumptions_tried) = 2
       /\ flexure.derivation.assumptions_tried[1].case = "fs: yield, f's: yield"
       /\ ~flexure.derivation.assumptions_tried[1].consistent
       /\ flexure.derivation.assumptions_tried[2].consistent
       /\ flexure.assumption_used = "fs: yield, f's: not yield"
       /\ FGe(flexure.eps_t, Dec(5, 3))
       /\ flexure.phi = Dec(90, 2)

\* C5's case: the scenario's call has returned, tension-controlled.
C5_ScenarioReturned ==
    /\ pc = "returned" /\ call = "calc_flexure"
    /\ args.width = 300 /\ args.height = 500 /\ args.cover = 40 /\ args.stirrup_dia = 10
    /\ args.n_tension = 4 /\ args.db_tension = 20 /\ args.n_compression = 0
    /\ args.fc = 21 /\ args.fy = 415
    /\ flexure.d_prime = None
    /\ FGt(flexure.c, FromInt(114)) /\ FLt(flexure.c, FromInt(115))

\* C8: at the depth c calc_flexure returns, the residual of the case it
\* reports as used is below 1e-3 in absolute value.
C8_EquilibriumResidual ==
    pc = "returned" /\ call = "calc_flexure" =>
        FLt(FAbs(residual(fl, flexure.c, cases[fl.chosen].yt, cases[fl.chosen].yc_assume).R),
            Dec(1, 3))

\* C8, the case found: bisection ran all its iterations onto the depth where
\* the compression block reaches the compression steel, and the case was
\* accepted with a residual of more than 1 kN.
C8_ReturnedAtTheJump ==
    /\ pc = "returned" /\ call = "calc_flexure"
    /\ sv.k = MaxBisections
    /\ flexure.derivation.assumptions_tried[fl.chosen].consistent
    /\ FGt(FAbs(residual(fl, flexure.c, cases[fl.chosen].yt, cases[fl.chosen].yc_assume).R),
           FromInt(1000))

\* C9: calc_flexure does not raise once it has begun and its loops end within
\* their limits; a case without a root is recorded as "no-root" and the next
\* case is tried; when no case is consistent the result reports the last
\* case, neither yields, with the depth solved for that case; c > 0 in every
\* result.
C9_FallbackSolvedDepth ==
    /\ fl # Idle => /\ pc \in {"solve", "bracket", "bisect", "tried", "fallback", "finish", "returned"}
                    /\ Len(fl.assumptions_tried) <= Len(cases)
    /\ sv # Idle => sv.it <= MaxExpansions /\ sv.k <= MaxBisections
    /\ (pc = "returned" /\ call = "calc_flexure") =>
          LET tried == flexure.derivation.assumptions_tried
          IN /\ \A i \in 1..Len(tried) :
                   /\ tried[i].case = cases[i].label
                   /\ "status" \in DOMAIN tried[i] =>
                          /\ tried[i].status = "no-root"
                          /\ "c_mm" \notin DOMAIN tried[i]
                          /\ i < Len(cases) => i < Len(tried)
             /\ (\A i \in 1..Len(tried) : "status" \in DOMAIN tried[i] \/ ~tried[i].consistent)
                => /\ Len(tried) = Len(cases)
                   /\ flexure.assumption_used = "fs: not yield, f's: not yield"
                   /\ "c_mm" \in DOMAIN tried[Len(tried)]
                   /\ flexure.c = tried[Len(tried)].c_mm
             /\ FGt(flexure.c, Zero)

\* C9 as amended: as C9, but when no case is consistent the depth reported
\* with the last case is the depth solved for it if that case bracketed a
\* root, and 0.5 * h if it did not.
C9_FallbackDepthOrHalfHeight ==
    /\ fl # Idle => /\ pc \in {"solve", "bracket", "bisect", "tried", "fallback", "finish", "returned"}
                    /\ Len(fl.assumptions_tried) <= Len(cases)
    /\ sv # Idle => sv.it <= MaxExpansions /\ sv.k <= MaxBisections
    /\ (pc = "returned" /\ call = "calc_flexure") =>
          LET tried == flexure.derivation.assumptions_tried
          IN /\ \A i \in 1..Len(tried) :
                   /\ tried[i].case = cases[i].label
                   /\ "status" \in DOMAIN tried[i] =>
                          /\ tried[i].status = "no-root"
                          /\ "c_mm" \notin DOMAIN tried[i]
                          /\ i < Len(cases) => i < Len(tried)
             /\ (\A i \in 1..Len(tried) : "status" \in DOMAIN tried[i] \/ ~tried[i].consistent)
                => /\ Len(tried) = Len(cases)
                   /\ flexure.assumption_used = "fs: not yield, f's: not yield"
                   /\ flexure.c = IF "c_mm" \in DOMAIN tried[Len(tried)]
                                  THEN tried[Len(tried)].c_mm
                                  ELSE FMul(Dec(5, 1), FromInt(args.height))
             /\ (\E i \in 1..Len(tried) : "status" \notin DOMAIN tried[i] /\ tried[i].consistent)
                => /\ tried[Len(tried)].consistent
                   /\ flexure.assumption_used = tried[Len(tried)].case
                   /\ flexure.c = tried[Len(tried)].c_mm
             /\ FGt(flexure.c, Zero)

\* C9's case: all four cases failed to bracket a root and the call returned.
C9_ReturnedWithoutAnyRoot ==
    /\ pc = "returned" /\ call = "calc_flexure"
    /\ Len(flexure.derivation.assumptions_tried) = 4
    /\ \A i \in 1..4 : "status" \in DOMAIN flexure.derivation.assumptions_tried[i]

----------------------------------------------------------------------------
(* Claims about calc_shear, checked under SpecShear. *)

\* C6: when the factored shear equals phi * Vc, so that Vs_req = 0 and the
\* strength spacing is the table maximum, governing_limit is "minimum" or
\* "table" and never "strength".
C6_DemandAtPhiVcNeverStrength ==
    (pc = "returned" /\ call = "calc_shear" /\ args.Vu.kind = "phi_Vc")
    => shear.governing_limit \in {"minimum", "table"}

\* C6, the case found: the demand is phi * Vc, Vs_req is 0, the strength
\* spacing took the table maximum, and the tag says "strength".
C6_StrengthTagAtPhiVc ==
    /\ pc = "returned" /\ call = "calc_shear" /\ args.Vu.kind = "phi_Vc"
    /\ shear.Vs_req_kN = Zero
    /\ shear.s_req_mm = shear.s_table_max_mm
    /\ FLe(shear.s_table_max_mm, shear.s_min_req_mm)
    /\ shear.governing_limit = "strength"

\* C7: of two calls of calc_shear that differ only in the factored shear,
\* the one with the larger demand (an absent demand counting as zero) has a
\* governing spacing s_use_mm no larger than the other's.
C7_SpacingNeverGrowsWithDemand ==
    (pc = "returned" /\ call = "calc_shear") =>
        \A i \in 1..Len(earlier) :
            LET before == Vu_kN_of([args EXCEPT !.Vu = earlier[i].Vu])
                now    == Vu_kN_of(args)
                Vu1    == IF before = None THEN Zero ELSE before
                Vu2    == IF now = None THEN Zero ELSE now
            IN /\ FLe(Vu1, Vu2) => FLe(shear.s_use_mm, earlier[i].s_use_mm)
               /\ FLe(Vu2, Vu1) => FLe(earlier[i].s_use_mm, shear.s_use_mm)

\* C7's case: a call without demand, then one whose demand moves the table
\* to min(d/4, 300), with a strictly smaller spacing.
C7_TableSwitchTightens ==
    /\ pc = "returned" /\ call = "calc_shear"
    /\ Len(earlier) >= 1
    /\ earlier[1].Vu.kind = "absent"
    /\ args.Vu.kind = "kN"
    /\ FGt(shear.Vs_req_kN, shear.Vs_threshold_kN)
    /\ shear.s_table_max_mm = FMin(FDiv(FromInt(args.d), FromInt(4)), FromInt(300))
    /\ FLt(shear.s_use_mm, earlier[1].s_use_mm)


\* C12: called without a factored shear, calc_shear still returns the
\* concrete strength, the three spacings, the governing spacing (their
\* minimum) and the provided capacity, and both 'ok' and 'ok_dim' are true.
C12_NoDemandNoVerdict ==
    (pc = "returned" /\ call = "calc_shear" /\ args.Vu.kind = "absent")
    => /\ shear.ok /\ shear.ok_dim
       /\ FGt(shear.Vc_kN, Zero)
       /\ shear.Vs_req_kN = Zero
       /\ FGt(shear.s_req_mm, Zero) /\ FGt(shear.s_min_req_mm, Zero)
       /\ FGt(shear.s_table_max_mm, Zero)
       /\ shear.s_use_mm = FMin(FMin(shear.s_req_mm, shear.s_min_req_mm), shear.s_table_max_mm)
       /\ FGt(shear.Vs_prov_kN, Zero)
       /\ FGt(shear.phiVn_kN, FMul(Dec(75, 2), shear.Vc_kN))

\* C12's case: a call without demand has returned, after a call whose
\* demand was beyond the dimension limit.
C12_ReturnedWithoutDemand ==
    /\ pc = "returned" /\ call = "calc_shear" /\ args.Vu.kind = "absent"
    /\ shear.ok /\ shear.ok_dim
    /\ Len(earlier) >= 1 /\ earlier[1].Vu.kind = "kN" /\ earlier[1].Vu.kN = 1600

\* C17: the flag 'ok' is true exactly when phi * (Vc + Vs provided at the
\* governing spacing) >= Vu (always, without a demand), whatever 'ok_dim'.
C17_OkIsStrengthAdequacy ==
    (pc = "returned" /\ call = "calc_shear") =>
        (shear.ok <=> (args.Vu.kind = "absent"
                       \/ FGe(FAdd(shear.phiVn_kN, Dec(1, 6)), Vu_kN_of(args))))

\* C17, the case found: the provided strength covers the demand, the
\* demand is beyond the dimension limit, and 'ok' is false.
C17_AdequateStrengthReportedNotOk ==
    /\ pc = "returned" /\ call = "calc_shear" /\ args.Vu.kind = "kN"
    /\ FGe(shear.phiVn_kN, Vu_kN_of(args))
    /\ ~shear.ok_dim
    /\ ~shear.ok


----------------------------------------------------------------------------
(* Further claims about place_bars, checked under Spec. *)

\* C13: in a returned placement, the bars of a role that stand in a single
\* row are mirror-symmetric about the midline of the inside envelope
\* (x_i - x_mid = -(x_(n-1-i) - x_mid)) and adjacent centres are db + clear
\* spacing apart, both to within EPS.
C13_SingleRowSymmetric ==
    (pc = "returned" /\ call = "place_bars") =>
        \A role \in {"tension", "compression"} :
            LET row   == OfRole(placement.bars, role)
                n     == Len(row)
                x_mid == Half(FAdd(placement.stirrup_inside.x_min, placement.stirrup_inside.x_max))
                db    == IF role = "tension" THEN args.db_tension ELSE args.db_compression
                pitch == FAdd(FromInt(db), min_clear_spacing(FromInt(db), Opt(args.agg_size)))
            IN (\A i \in 1..n : row[i].layer = 1) =>
                  /\ \A i \in 1..n :
                        FLe(FAbs(FAdd(FSub(row[i].x_mm, x_mid), FSub(row[n + 1 - i].x_mm, x_mid))),
                            EPS)
                  /\ \A i \in 1..(n - 1) :
                        FLe(FAbs(FSub(FSub(row[i + 1].x_mm, row[i].x_mm), pitch)), EPS)

\* C13's case: a single row of three tension bars with side margins left
\* over, and a single row of compression bars at the aggregate's spacing.
C13_RowsWithMargins ==
    /\ pc = "returned" /\ call = "place_bars"
    /\ args.n_tension = 3 /\ args.n_compression = 2 /\ args.agg_size = 25
    /\ \A i \in 1..Len(placement.bars) : placement.bars[i].layer = 1
    /\ Len(placement.bars) = 5
    /\ FGt(placement.bars[1].x_mm,
           FAdd(placement.stirrup_inside.x_min, FromInt(args.db_tension)))


\* C19: place_bars terminates: a call is at its start, has returned a
\* PlacementResult, or has raised ValueError; it is never inside the padding
\* loop of pick_second_row_positions with no unused index left to add.
C19_PlaceBarsTerminates ==
    call = "place_bars" => pc \in {"call", "returned", "raised"}

\* C19, the case found: the remainder for layer 2 is more than 3 and more
\* than the bars of layer 1, and the padding loop runs without end.
C19_PaddingLoopWithoutEnd ==
    /\ call = "place_bars" /\ pc = "pad_loop"
    /\ placement.status = "loops"
    /\ args.n_tension = 6 /\ args.db_tension = 20 /\ args.width = 200 /\ args.height = 500
    /\ args.cover = 40 /\ args.n_compression = 0
    /\ ENABLED PadLoop


----------------------------------------------------------------------------
(* Further claims about calc_flexure, checked under SpecFlexure. *)

\* C14: when calc_flexure returns a case it judged consistent, the stresses
\* that strain compatibility gives at the returned c agree with the case:
\* tension steel assumed to yield has 600 (d - c) / c >= fy - 1e-6, tension
\* steel assumed not to yield has that stress, clamped, below fy - 1e-6 in
\* absolute value, and the same for compression steel with 600 (c - d') / c.
C14_SelectedCaseMatchesStrain ==
    (/\ pc = "returned" /\ call = "calc_flexure"
     /\ "consistent" \in DOMAIN Last(flexure.derivation.assumptions_tried)
     /\ Last(flexure.derivation.assumptions_tried).consistent)
    => LET c       == flexure.c
           limit   == FSub(fl.fy, Dec(1, 6))
           fs      == FDiv(FMul(FromInt(600), FSub(fl.d, c)), FMax(c, EPS))
           fsp     == FDiv(FMul(FromInt(600), FSub(c, fl.d_prime)), FMax(c, EPS))
       IN /\ IF cases[fl.chosen].yt THEN FGe(fs, limit)
             ELSE FLt(FAbs(Clamp(fs, fl.fy)), limit)
          /\ fl.d_prime # None =>
                IF cases[fl.chosen].yc_assume THEN FGe(fsp, limit)
                ELSE FLt(FAbs(Clamp(fsp, fl.fy)), limit)

\* C14, the case found: the case returned as consistent assumes that the
\* compression steel yields, and at the returned c strain compatibility
\* gives it less than a quarter of fy.
C14_YieldAssumedNotRecomputed ==
    /\ pc = "returned" /\ call = "calc_flexure"
    /\ fl.d_prime # None
    /\ cases[fl.chosen].yc_assume
    /\ Last(flexure.derivation.assumptions_tried).consistent
    /\ Last(flexure.derivation.assumptions_tried).fsp_MPa = fl.fy
    /\ FLt(FMul(FromInt(4),
                FDiv(FMul(FromInt(600), FSub(flexure.c, fl.d_prime)), FMax(flexure.c, EPS))),
           fl.fy)

\* C15: the trail 'assumptions_tried' follows the fixed order of the cases,
\* one entry per case tried; every entry before the last is 'no-root' or has
\* consistent = false; an entry with consistent = true is the last one, its
\* label is 'assumption_used' and its c is the returned c.
C15_TrailInFixedOrder ==
    /\ fl # Idle =>
          /\ \A i \in 1..Len(fl.assumptions_tried) :
                /\ fl.assumptions_tried[i].case = cases[i].label
                /\ DOMAIN fl.assumptions_tried[i] = {"case", "status"}
                   \/ "consistent" \in DOMAIN fl.assumptions_tried[i]
          /\ pc \in {"solve", "bracket", "bisect", "tried"} =>
                /\ Len(fl.assumptions_tried) = fl.case - 1
                /\ \A i \in 1..Len(fl.assumptions_tried) :
                      "status" \in DOMAIN fl.assumptions_tried[i]
                      \/ ~fl.assumptions_tried[i].consistent
    /\ (pc = "returned" /\ call = "calc_flexure") =>
          LET tried == flexure.derivation.assumptions_tried
          IN /\ Len(tried) \in 1..Len(cases)
             /\ tried = fl.assumptions_tried
             /\ \A i \in 1..(Len(tried) - 1) :
                   "status" \in DOMAIN tried[i] \/ ~tried[i].consistent
             /\ \A i \in 1..Len(tried) :
                   ("consistent" \in DOMAIN tried[i] /\ tried[i].consistent)
                   => /\ i = Len(tried)
                      /\ tried[i].case = flexure.assumption_used
                      /\ tried[i].c_mm = flexure.c

\* C15's case: with compression steel above the compression block, the
\* first case found a root and was judged inconsistent, and the second case
\* was judged consistent and returned.
C15_SecondCaseSelected ==
    /\ pc = "returned" /\ call = "calc_flexure"
    /\ fl.d_prime # None
    /\ Len(flexure.derivation.assumptions_tried) = 2
    /\ "c_mm" \in DOMAIN flexure.derivation.assumptions_tried[1]
    /\ ~flexure.derivation.assumptions_tried[1].consistent
    /\ flexure.derivation.assumptions_tried[2].consistent
    /\ flexure.assumption_used = cases[2].label


----------------------------------------------------------------------------
(* Claims about run_calculation, checked under SpecRun. *)

\* C18 as stated: in the report, when rho_over is false both suggested
\* percentages are 0 and rho_over_msg is None, and when rho_over is true both
\* percentages are strictly positive.
C18_PercentagesOnlyWhenOver ==
    report # Idle =>
        LET r == report.v.reinforcement.v
        IN  IF r.rho_over.v
            THEN /\ r.As_reduction_needed_pct.type = "float"
                 /\ FGt(r.As_reduction_needed_pct.v, Zero)
                 /\ r.bd_increase_needed_pct.type = "float"
                 /\ FGt(r.bd_increase_needed_pct.v, Zero)
            ELSE /\ r.As_reduction_needed_pct = PyValue("float", Zero)
                 /\ r.bd_increase_needed_pct = PyValue("float", Zero)
                 /\ r.rho_over_msg = PyValue("other", None)

\* A report whose ratio is within the maximum and whose percentages are negative.
C18_PercentagesWithoutExcess ==
    /\ report # Idle
    /\ ~report.v.reinforcement.v.rho_over.v
    /\ report.v.reinforcement.v.rho_over_msg = PyValue("other", None)
    /\ FLt(report.v.reinforcement.v.As_reduction_needed_pct.v, Zero)
    /\ FLt(report.v.reinforcement.v.bd_increase_needed_pct.v, Zero)

\* C16 as stated: calc_flexure is given exactly the bars of placement.bars,
\* also when the provided tension area is below rho_min * b * d.
C16_SolverGivenPlacedBars ==
    run # Idle => run.bars_for_calc = placement.bars

\* C16: calc_flexure is given the bars of placement.bars in their order,
\* followed, exactly when As_t + 1e-9 < rho_min * b * d, by one virtual tension
\* bar of layer 1 at the envelope's midline and the tension centroid whose area
\* is the missing area; the tension area calc_flexure sums is the area of those
\* bars (rho_min * b * d within 1e-6 when the virtual bar is there), its
\* effective depth is the placed bars' within 1e-6, and rebar_layout lists
\* placement.bars alone.
C16_SolverGivenPlacedBarsAndShortfall ==
    /\ run # Idle =>
          LET n == Len(placement.bars)
              short == FLt(FAdd(run.As_t, Dec(1, 9)),
                           FMul(FMul(run.rho_min, FromInt(args.width)), run.d_eff))
          IN  /\ SubSeq(run.bars_for_calc, 1, n) = placement.bars
              /\ run.used_rho_min = short
              /\ Len(run.bars_for_calc) = IF short THEN n + 1 ELSE n
              /\ short =>
                    LET virtual == run.bars_for_calc[n + 1]
                    IN  /\ virtual.role = "tension" /\ virtual.layer = 1
                        /\ virtual.y_mm = centroid_of_role(placement.bars, "tension")
                        /\ virtual.x_mm = Half(FAdd(placement.stirrup_inside.x_min,
                                                    placement.stirrup_inside.x_max))
                        /\ FLe(FAbs(FSub(FAdd(run.As_t, area_of_bar(virtual.dia_mm)),
                                         run.As_min)), Dec(1, 6))
    /\ (run # Idle /\ fl # Idle) =>
          /\ fl.As_t = sum_area(run.bars_for_calc, "tension")
          /\ fl.As_c = sum_area(placement.bars, "compression")
          /\ FLe(FAbs(FSub(fl.d, run.d_eff)), Dec(1, 6))
          /\ run.used_rho_min => FLe(FAbs(FSub(fl.As_t, run.As_min)), Dec(1, 6))
    /\ report # Idle =>
          report.v.rebar_layout.v.bars = PyDicts(placement.bars)

\* A returned report whose capacity was computed with the virtual bar.
C16_VirtualBarInCapacity ==
    /\ call = "run_calculation" /\ pc = "returned" /\ report # Idle
    /\ run.used_rho_min
    /\ Len(run.bars_for_calc) = Len(placement.bars) + 1
    /\ FGt(fl.As_t, sum_area(placement.bars, "tension"))
    /\ report.v.reinforcement.v.used_rho_min_for_capacity.v

\* x holds a NaN or an infinite float at some depth of its dicts and lists.
RECURSIVE NonFinite(_)
NonFinite(x) ==
    CASE x.type = "float" -> x.v \in {NaN, Inf}
      [] x.type = "dict" -> \E k \in DOMAIN x.v : NonFinite(x.v[k])
      [] x.type \in {"list", "tuple"} -> \E i \in DOMAIN x.v : NonFinite(x.v[i])
      [] OTHER -> FALSE

\* C11: no float at any depth of the dicts and lists of the returned report is
\* NaN or infinite: a non-finite moment of the request is reported as None, a
\* finite one as it was given, and the report holds no tuple.
C11_ReportFreeOfNonFinite ==
    report # Idle =>
        /\ ~NonFinite(report)
        /\ report.v.geom.v.Mu_kNm = IF args.Mu \in {NaN, Inf} THEN PyValue("other", None)
                                    ELSE PyValue("float", args.Mu)
        /\ report.v.checks.v.flexure.v.derivation.v.d_prime_mm
              = IF flexure.d_prime = None THEN PyValue("other", None)
                ELSE PyValue("float", flexure.d_prime)
        /\ report.v.checks.v.flexure.v.derivation.v.assumptions_tried
              = PyDicts(flexure.derivation.assumptions_tried)

\* A returned report of a request whose moment was not finite, without
\* compression steel (d_prime is None).
C11_NonFiniteMomentReported ==
    /\ call = "run_calculation" /\ pc = "returned" /\ report # Idle
    /\ args.Mu \in {NaN, Inf}
    /\ report.v.geom.v.Mu_kNm = PyValue("other", None)
    /\ ~report.v.checks.v.flexure_ok.v
    /\ report.v.checks.v.flexure.v.d_prime = PyValue("other", None)
    /\ Len(report.v.checks.v.flexure.v.derivation.v.assumptions_tried.v) >= 1

=============================================================================
